---- MODULE Spec2Model ----
(***************************************************************************)
(* Model of cans/guesser.py: the quick-guess pipeline of class Guesser and *)
(* the entry points fit_log_eq and fit_imag_neigh.                         *)
(*                                                                         *)
(* Numbers are exact rationals <<n, d>> in lowest terms with d > 0.  The   *)
(* three non-finite values of the floating point arrays are kept:          *)
(* <<1, 0>> is +inf, <<-1, 0>> is -inf and <<0, 0>> is nan.  Python's None *)
(* is the empty sequence, a present value x is <<x>>.  Python indices are  *)
(* 0-based, sequences here are 1-based: index k of the source is k + 1.    *)
(***************************************************************************)
EXTENDS Integers, Sequences, FiniteSets, TLC

\* ------------------------------------------------------------------ bounds
\* Number of cultures of the plate (rows * cols).
NCultures == 3
\* Largest final cell measurement drawn for a culture when a function is
\* applied on its own.
MaxMeas == 2
\* Largest final cell measurement drawn for a culture of a pipeline run.
MaxMeasRun == 1
\* Largest simulated final-measurement variance drawn for one swept kn.
MaxVar == 2

\* --------------------------------------------------------------- rationals
Abs(n) == IF n < 0 THEN -n ELSE n

Sign(n) == IF n < 0 THEN -1 ELSE IF n > 0 THEN 1 ELSE 0

RECURSIVE GCD(_, _)
GCD(a, b) == IF b = 0 THEN a ELSE GCD(b, a % b)

RNorm(n, d) ==
    IF d = 0 THEN <<Sign(n), 0>>
    ELSE LET g == GCD(Abs(n), Abs(d))
             s == IF d < 0 THEN -1 ELSE 1
         IN  <<(s * n) \div g, (s * d) \div g>>

R(n) == <<n, 1>>

NaN == <<0, 0>>

Inf == <<1, 0>>

IsNaN(a) == a = NaN

IsFinite(a) == a[2] # 0

RNeg(a) == <<-a[1], a[2]>>

RAdd(a, b) ==
    IF IsNaN(a) \/ IsNaN(b) THEN NaN
    ELSE IF ~IsFinite(a) THEN (IF ~IsFinite(b) /\ b # a THEN NaN ELSE a)
    ELSE IF ~IsFinite(b) THEN b
    ELSE RNorm(a[1] * b[2] + b[1] * a[2], a[2] * b[2])

RSub(a, b) == RAdd(a, RNeg(b))

RMul(a, b) == RNorm(a[1] * b[1], a[2] * b[2])

\* numpy division: x/0 is +-inf, 0/0 is nan (a warning, no exception).
RDiv(a, b) ==
    IF b[1] < 0 THEN RNorm(-(a[1] * b[2]), -(a[2] * b[1]))
    ELSE RNorm(a[1] * b[2], a[2] * b[1])

RLt(a, b) ==
    IF IsNaN(a) \/ IsNaN(b) THEN FALSE
    ELSE IF ~IsFinite(a) /\ ~IsFinite(b) THEN a[1] < b[1]
    ELSE a[1] * b[2] < b[1] * a[2]

REq(a, b) == ~IsNaN(a) /\ ~IsNaN(b) /\ a = b

RLe(a, b) == RLt(a, b) \/ REq(a, b)

\* int(np.ceil(a)) of a finite a.
Ceil(a) == -((-a[1]) \div a[2])

\* ndarray.clip(min=lo) on one entry: nan stays nan.
ClipMin(a, lo) == IF RLt(a, lo) THEN lo ELSE a

\* ndarray.clip(max=hi) on one entry: nan stays nan.
ClipMax(a, hi) == IF RLt(hi, a) THEN hi ELSE a

\* ---------------------------------------------------------------- sequences
RECURSIVE RSum(_)
RSum(s) == IF s = <<>> THEN R(0) ELSE RAdd(s[1], RSum(Tail(s)))

RECURSIVE RMaxSeq(_)
RMaxSeq(s) ==
    IF Len(s) = 1 THEN s[1]
    ELSE LET m == RMaxSeq(Tail(s)) IN IF RLt(s[1], m) THEN m ELSE s[1]

RECURSIVE RMinSeq(_)
RMinSeq(s) ==
    IF Len(s) = 1 THEN s[1]
    ELSE LET m == RMinSeq(Tail(s)) IN IF RLt(m, s[1]) THEN m ELSE s[1]

\* s[-k:] of Python: the last k entries, and the whole of s when k = 0.
LastK(s, k) ==
    IF k = 0 \/ k >= Len(s) THEN s ELSE SubSeq(s, Len(s) - k + 1, Len(s))

\* s[k:] of Python for k >= 0.
From(s, k) == IF k >= Len(s) THEN <<>> ELSE SubSeq(s, k + 1, Len(s))

\* s[:k] of Python for k >= 0.
UpTo(s, k) == IF k >= Len(s) THEN s ELSE SubSeq(s, 1, k)

\* list.index(x), as a 0-based Python index.
Index(s, x) == (CHOOSE k \in 1..Len(s) : s[k] = x /\ \A j \in 1..(k - 1) : s[j] # x) - 1

\* np.delete(s, k) for a 0-based k.
Delete(s, k) == UpTo(s, k) \o From(s, k + 1)

\* np.insert(s, k, x) for a 0-based k.
Insert(s, k, x) == UpTo(s, k) \o <<x>> \o From(s, k)

\* The entries of s at the (ascending) indices of set S, in index order.
RECURSIVE Pick(_, _, _)
Pick(s, S, k) ==
    IF k > Len(s) THEN <<>>
    ELSE (IF k \in S THEN <<s[k]>> ELSE <<>>) \o Pick(s, S, k + 1)

\* np.var: the population variance.
Var(s) ==
    LET n == R(Len(s))
        mean == RDiv(RSum(s), n)
        sq == [k \in 1..Len(s) |-> RMul(RSub(s[k], mean), RSub(s[k], mean))]
    IN  RDiv(RSum(sq), n)

\* ------------------------------------------------------------------- state
VARIABLES
    role,           \* plate: culture index -> "internal" | "edge" | "empty"
    c_meas,         \* plate.c_meas: measurements, time-major, finals last
    model,          \* the plate model: species, species_bc, params
    area_ratio,     \* Guesser.area_ratio, None or <<ratio>>
    C_ratio,        \* Guesser.C_ratio, None or <<ratio>>
    call,           \* the entry point called and its arguments
    pc,             \* position of the run
    i,              \* loop index of the per-culture fit loop
    log_est,        \* culture.log_est per culture, None or <<result>>
    im_neigh_est,   \* culture.im_neigh_est per culture, None or <<result>>
    first_guess,    \* first_guess of the running stage
    neigh,          \* quick_fit_imag_neighs locals: no_neighs, guess and bounds groups
    fitted,         \* per culture, the arguments of every fit_model call of the run
    quick_guess,    \* the parameter vector returned so far
    sweep,          \* guess_kn locals: kns, C_f_vars and the line fitted
    bounds,         \* the array returned by get_bounds
    ret             \* return value of a function applied on its own

vars == <<role, c_meas, model, area_ratio, C_ratio, call, pc, i, log_est,
          im_neigh_est, first_guess, neigh, fitted, quick_guess, sweep,
          bounds, ret>>

plateVars == <<role, c_meas, model, area_ratio, C_ratio>>

None == <<>>

\* ------------------------------------------------------------------- plate
\* plate.no_cultures
no_cultures == NCultures

Cultures == 1..no_cultures

\* plate.internals, plate.edges, plate.empties: the role partition.
internals == {c \in Cultures : role[c] = "internal"}

edges == {c \in Cultures : role[c] = "edge"}

empties == {c \in Cultures : role[c] = "empty"}

\* plate.growers: the non-empty cultures.
growers == Cultures \ empties

\* Final-timepoint measurements, one per culture: c_meas[-no_cultures:].
C_fs == LastK(c_meas, no_cultures)

\* plate.c_meas_obj: the measurements of the growing cultures only,
\* time-major like c_meas.
c_meas_obj ==
    Pick(UpTo(c_meas, no_cultures), growers, 1) \o Pick(C_fs, growers, 1)

\* --------------------------------------------------------------- the model
\* CompModel (one N_0 for all cultures), CompModelBC (N_0 and NE_0).
CompModel ==
    [species |-> <<"C", "N">>, species_bc |-> <<FALSE, FALSE>>,
     params |-> <<"C_0", "N_0", "kn", "b">>]

CompModelBC ==
    [species |-> <<"C", "N">>, species_bc |-> <<FALSE, TRUE>>,
     params |-> <<"C_0", "N_0", "NE_0", "kn", "b">>]

\* The quick-fit models: parameters of one culture's fit.
IndeModel == [params |-> <<"C_0", "N_0", "b">>]

ImagNeighModel == [params |-> <<"C_0", "N_0", "kn1", "kn2", "b-", "b+", "b">>]

b_index(quick_mod) == Index(quick_mod.params, "b")

N_index == Index(model.species, "N")

\* bool(self.model.species_bc[N_index])
N_bc == model.species_bc[N_index + 1]

kn_index == Index(model.params, "kn")

\* ---------------------------------------------------------- Guesser methods
\* _guess_init_N raises TypeError on ne*None.
GuessInitNRaises == N_bc /\ area_ratio = None

\* Mutant: the uniform guess divides by the number of growers.
guess_init_N_mut_growers ==
    LET N_tot == RSum(LastK(c_meas_obj, Cardinality(growers)))
    IN  IF N_bc
        THEN LET ni == R(Cardinality(internals))
                 ne == R(Cardinality(edges))
                 Ni == RDiv(N_tot, RAdd(ni, RMul(ne, area_ratio[1])))
                 Ne == RDiv(RSub(N_tot, RMul(ni, Ni)), ne)
             IN  <<Ni, Ne>>
        ELSE <<RDiv(N_tot, R(Cardinality(growers)))>>

\* Mutant: Ne = N_tot - ni*Ni/ne, the parentheses lost.
guess_init_N_mut_precedence ==
    LET N_tot == RSum(LastK(c_meas_obj, Cardinality(growers)))
    IN  IF N_bc
        THEN LET ni == R(Cardinality(internals))
                 ne == R(Cardinality(edges))
                 Ni == RDiv(N_tot, RAdd(ni, RMul(ne, area_ratio[1])))
                 Ne == RSub(N_tot, RDiv(RMul(ni, Ni), ne))
             IN  <<Ni, Ne>>
        ELSE <<RDiv(N_tot, R(no_cultures))>>

guess_init_N ==
    LET N_tot == RSum(LastK(c_meas_obj, Cardinality(growers)))
    IN  IF N_bc
        THEN LET ni == R(Cardinality(internals))
                 ne == R(Cardinality(edges))
                 Ni == RDiv(N_tot, RAdd(ni, RMul(ne, area_ratio[1])))
                 Ne == RDiv(RSub(N_tot, RMul(ni, Ni)), ne)
             IN  <<Ni, Ne>>
        ELSE <<RDiv(N_tot, R(no_cultures))>>

\* _guess_init_C raises TypeError on max(...)*None.
GuessInitCRaises == C_ratio = None

guess_init_C == <<RMul(RMaxSeq(C_fs), C_ratio[1])>>

\* make_first_guess calls _guess_init_C, then _guess_init_N.
MakeFirstGuessRaises == GuessInitCRaises \/ GuessInitNRaises

make_first_guess(b_guess) == guess_init_C \o guess_init_N \o <<b_guess>>

\* Mutant: the cell bound multiplies where it divides and divides where it
\* multiplies.
bound_init_amounts_mut_inverted(guess, C_doubt, N_doubt) ==
    LET cell == <<<<RMul(guess[1], C_doubt), RDiv(guess[1], C_doubt)>>>>
    IN  IF ~N_bc
        THEN cell \o <<<<RMul(guess[2], <<9, 10>>), RMul(guess[2], N_doubt)>>>>
        ELSE cell \o <<<<RDiv(guess[2], N_doubt), RMul(guess[2], N_doubt)>>,
                       <<RDiv(guess[3], N_doubt), RMul(guess[3], N_doubt)>>>>

bound_init_amounts(guess, C_doubt, N_doubt) ==
    LET cell == <<<<RDiv(guess[1], C_doubt), RMul(guess[1], C_doubt)>>>>
    IN  IF ~N_bc
        THEN cell \o <<<<RMul(guess[2], <<9, 10>>), RMul(guess[2], N_doubt)>>>>
        ELSE cell \o <<<<RDiv(guess[2], N_doubt), RMul(guess[2], N_doubt)>>,
                       <<RDiv(guess[3], N_doubt), RMul(guess[3], N_doubt)>>>>

\* An upper bound of None (unbounded) is +inf.
get_bounds(params, C_doubt, N_doubt, kn_max) ==
    bound_init_amounts(params, C_doubt, N_doubt)
        \o <<<<R(0), kn_max>>>>
        \o [k \in 1..no_cultures |-> <<R(0), Inf>>]

\* Returns <<guess groups, bounds groups>>.
\* Mutant: the bounds lose the other nutrient slot than the guess does.
sep_by_N_0_mut_misaligned(param_guess, bnds) ==
    IF N_bc
    THEN <<<<Delete(param_guess, 2), Delete(param_guess, 1)>>,
           <<Delete(bnds, 1), Delete(bnds, 2)>>>>
    ELSE <<<<param_guess>>, <<bnds>>>>

sep_by_N_0(param_guess, bnds) ==
    IF N_bc
    THEN <<<<Delete(param_guess, 2), Delete(param_guess, 1)>>,
           <<Delete(bnds, 2), Delete(bnds, 1)>>>>
    ELSE <<<<param_guess>>, <<bnds>>>>

\* sorted() of a list of numbers, by insertion.
RECURSIVE InsertSorted(_, _)
InsertSorted(s, x) ==
    IF s = <<>> THEN <<x>>
    ELSE IF RLt(x, s[1]) THEN <<x>> \o s
    ELSE <<s[1]>> \o InsertSorted(Tail(s), x)

RECURSIVE Sorted(_)
Sorted(s) == IF s = <<>> THEN <<>> ELSE InsertSorted(Sorted(Tail(s)), s[1])

\* np.median: nan for an empty array.
Median(s) ==
    LET t == Sorted(s)
        n == Len(s)
    IN  IF n = 0 THEN NaN
        ELSE IF n % 2 = 1 THEN t[(n + 1) \div 2]
        ELSE RDiv(RAdd(t[n \div 2], t[n \div 2 + 1]), R(2))

\* zip(C_fs, all_ests) stops at the shorter of the two.
ZipLen(all_ests) == IF Len(all_ests) < Len(C_fs) THEN Len(all_ests) ELSE Len(C_fs)

\* sorted() of (C_f, est) tuples compares two estimate rows when their C_f
\* are equal, and the truth value of that array comparison is a ValueError.
TopHalfRaises(all_ests) ==
    \E j, k \in 1..ZipLen(all_ests) : j # k /\ REq(C_fs[j], C_fs[k])

\* all_ests: one row per growing culture, in culture order.
get_top_half_C_f_ests(all_ests) ==
    LET m == ZipLen(all_ests)
        rank(k) == Cardinality({j \in 1..m : RLt(C_fs[j], C_fs[k])}) + 1
        C_f_sorted == [r \in 1..m |-> all_ests[CHOOSE k \in 1..m : rank(k) = r]]
    IN  From(C_f_sorted, no_cultures \div 2)

\* The growing cultures in index order, as plate.growers lists them.
growersSeq == Pick([c \in Cultures |-> c], growers, 1)

\* all_ests of _process_quick_ests: the rows est[c].x of the growers.
AllEsts(est) == [k \in 1..Len(growersSeq) |-> est[growersSeq[k]][1].x]

\* getattr(c, est_name) raises AttributeError for a grower never fitted.
ProcessRaises(est, C_0_handling, plate_lvl) ==
    \/ \E c \in growers : est[c] = None
    \/ /\ plate_lvl = None
       /\ \/ C_0_handling = "first_guess" /\ GuessInitCRaises
          \/ C_0_handling = "top_half" /\ TopHalfRaises(AllEsts(est))
          \/ GuessInitNRaises

\* Mutant: the clip is not applied.
BEstHolder_mut_noclip(est, quick_mod, b_guess, clip) ==
    LET all_ests == AllEsts(est)
        b_ests == [k \in 1..Len(all_ests) |-> all_ests[k][b_index(quick_mod) + 1]]
    IN  [c \in Cultures |->
           IF c \in growers
           THEN b_ests[CHOOSE k \in 1..Len(growersSeq) : growersSeq[k] = c]
           ELSE R(0)]

\* The b estimates of the growers, clipped if asked, empties left at zero.
BEstHolder(est, quick_mod, b_guess, clip) ==
    LET all_ests == AllEsts(est)
        b_ests == [k \in 1..Len(all_ests) |->
                     LET b == all_ests[k][b_index(quick_mod) + 1]
                     IN  IF clip THEN ClipMax(b, RMul(R(3), b_guess)) ELSE b]
    IN  [c \in Cultures |->
           IF c \in growers
           THEN b_ests[CHOOSE k \in 1..Len(growersSeq) : growersSeq[k] = c]
           ELSE R(0)]

Col0(rows) == [k \in 1..Len(rows) |-> rows[k][1]]

\* Mutant: the placeholder is appended instead of inserted at kn_index.
process_quick_ests_mut_kn_last(est, quick_mod, b_guess, clip, C_0_handling, plate_lvl) ==
    LET b_ests == BEstHolder(est, quick_mod, b_guess, clip)
    IN  IF plate_lvl # None THEN plate_lvl[1] \o b_ests
        ELSE guess_init_C \o guess_init_N \o b_ests \o <<NaN>>

process_quick_ests(est, quick_mod, b_guess, clip, C_0_handling, plate_lvl) ==
    LET all_ests == AllEsts(est)
        b_ests == BEstHolder(est, quick_mod, b_guess, clip)
        C_0_guess ==
            IF C_0_handling = "first_guess" THEN guess_init_C
            ELSE IF C_0_handling = "median" THEN <<Median(Col0(all_ests))>>
            ELSE <<Median(Col0(get_top_half_C_f_ests(all_ests)))>>
        new_guess == C_0_guess \o guess_init_N \o b_ests
    IN  IF plate_lvl # None THEN plate_lvl[1] \o b_ests
        ELSE Insert(new_guess, kn_index, NaN)

\* np.linspace(start, stop, num)
linspace(start, stop, num) ==
    [k \in 1..num |->
       IF num = 1 THEN start
       ELSE RAdd(start, RDiv(RMul(R(k - 1), RSub(stop, start)), R(num - 1)))]

\* np.linalg.lstsq of the line C_f_var = m*kn + c: <<m, c>>.  With fewer
\* than two distinct kns the system is rank deficient and lstsq returns the
\* minimum-norm solution.
lstsq(xs, ys) ==
    LET n == R(Len(xs))
        Sx == RSum(xs)
        Sy == RSum(ys)
        Sxx == RSum([k \in 1..Len(xs) |-> RMul(xs[k], xs[k])])
        Sxy == RSum([k \in 1..Len(xs) |-> RMul(xs[k], ys[k])])
        det == RSub(RMul(n, Sxx), RMul(Sx, Sx))
    IN  IF det # R(0)
        THEN LET m == RDiv(RSub(RMul(n, Sxy), RMul(Sx, Sy)), det)
             IN  <<m, RDiv(RSub(Sy, RMul(m, Sx)), n)>>
        ELSE LET x0 == xs[1]
                 k == RDiv(RDiv(Sy, n), RAdd(RMul(x0, x0), R(1)))
             IN  <<RMul(k, x0), k>>

\* ndarray.clip(min=0.0) of a whole vector.
ClipAll(v) == [k \in 1..Len(v) |-> ClipMin(v[k], R(0))]

\* kn_guess of guess_kn from the fitted line <<m, c>>.
kn_guess(line) == RDiv(RSub(Var(C_fs), line[2]), line[1])

\* Mutant: the guess is written one position after kn_index.
guess_kn_mut_index(start, stop, num, params, C_f_vars) ==
    ClipAll([params EXCEPT
       ![kn_index + 2] = kn_guess(lstsq(linspace(start, stop, num), C_f_vars))])

\* Mutant: the params are returned without the final clip.
guess_kn_mut_noclip(start, stop, num, params, C_f_vars) ==
    [params EXCEPT
       ![kn_index + 1] = kn_guess(lstsq(linspace(start, stop, num), C_f_vars))]

\* guess_kn given the simulated variances: the returned params.
guess_kn(start, stop, num, params, C_f_vars) ==
    ClipAll([params EXCEPT
               ![kn_index + 1] = kn_guess(lstsq(linspace(start, stop, num), C_f_vars))])

\* ------------------------------------------------------------ initial state
Roles == {"internal", "edge", "empty"}

\* Every plate has at least one edge culture present.
Plates == {r \in [Cultures -> Roles] : \E c \in Cultures : r[c] = "edge"}

\* Measurements at the first time point are zero; finals are drawn in 0..hi.
Measurements(hi) ==
    {[k \in 1..no_cultures |-> R(0)] \o f : f \in [Cultures -> {R(m) : m \in 0..hi}]}

\* Caller-supplied plate level parameters [C_0, N_0, (NE_0), kn] of a model.
PlateLvl(mod) ==
    IF mod.species_bc[2] THEN <<<<1, 2>>, R(2), <<1, 2>>, R(1)>>
    ELSE <<<<1, 2>>, R(2), R(1)>>

\* ['kn1', 'kn2', 'b-', 'b+', 'b'] for a guess b.
ImagNeighParams(b) == <<R(1), R(1), RDiv(b, R(2)), RMul(<<3, 2>>, b), b>>

BGuesses == {R(1)}

\* The calls of the two entry points; kn is (kn_start, kn_stop, kn_num).
Calls(mod, sweeps) ==
    {[entry |-> "fit_log_eq", b_guess |-> b, imag_neigh_params |-> <<>>,
      no_neighs |-> None, plate_lvl |-> None, kn |-> k] :
        b \in BGuesses, k \in sweeps}
    \cup
    {[entry |-> "fit_imag_neigh", b_guess |-> b,
      imag_neigh_params |-> ImagNeighParams(b),
      no_neighs |-> nn, plate_lvl |-> pl, kn |-> k] :
        b \in BGuesses, nn \in {None, <<1>>},
        pl \in {None, <<<<>>>>, <<PlateLvl(mod)>>}, k \in sweeps}

NoEst == [c \in Cultures |-> None]

NoNeigh == [no_neighs |-> 0, params |-> <<>>, bounds |-> <<>>, N_0_index |-> -1]

NoSweep == [kns |-> <<>>, C_f_vars |-> <<>>]

NoRet == [fn |-> "", raised |-> FALSE, val |-> <<>>]

InitRun ==
    /\ i = 0
    /\ log_est = NoEst
    /\ im_neigh_est = NoEst
    /\ first_guess = <<>>
    /\ neigh = NoNeigh
    /\ fitted = [c \in Cultures |-> <<>>]
    /\ quick_guess = <<>>
    /\ sweep = NoSweep
    /\ bounds = <<>>
    /\ ret = NoRet

\* Guesser(plate, plate_model, area_ratio, C_ratio) and the call made on it.
\* An empty position measures no cells.  With plate_lvl supplied the ratios are both given or both None.
Init ==
    /\ role \in Plates
    /\ c_meas \in Measurements(MaxMeasRun)
    /\ \A c \in empties : C_fs[c] = R(0)
    /\ model \in {CompModel, CompModelBC}
    /\ area_ratio \in {None, <<R(2)>>}
    /\ C_ratio \in {None, <<<<1, 2>>>>}
    /\ call \in Calls(model, {<<R(0), R(2), 2>>})
    /\ call.plate_lvl # None => ((area_ratio = None) <=> (C_ratio = None))
    /\ pc = "start"
    /\ InitRun

\* ----------------------------------------------------------------- actions
Raise(kind) ==
    /\ pc' = "error"
    /\ ret' = [fn |-> call.entry, raised |-> TRUE, val |-> <<kind>>]
    /\ UNCHANGED <<i, log_est, im_neigh_est, first_guess, neigh, fitted,
                   quick_guess, sweep, bounds>>

\* quick_fit_log_eq up to the fit loop.
StartLogEq ==
    /\ pc = "start"
    /\ call.entry = "fit_log_eq"
    /\ UNCHANGED <<plateVars, call>>
    /\ IF MakeFirstGuessRaises THEN Raise("TypeError")
       ELSE /\ first_guess' = make_first_guess(call.b_guess)
            /\ pc' = "log_fit"
            /\ i' = 1
            /\ UNCHANGED <<log_est, im_neigh_est, neigh, fitted, quick_guess,
                           sweep, bounds, ret>>

\* Mutant: every culture starts from the largest final measurement.
log_eq_guesses_mut_max ==
    [k \in 1..Len(C_fs) |-> <<first_guess[1], RMaxSeq(C_fs), call.b_guess>>]

\* log_eq_guesses of quick_fit_log_eq, one per entry of C_fs.
log_eq_guesses ==
    [k \in 1..Len(C_fs) |-> <<first_guess[1], C_fs[k], call.b_guess>>]

log_eq_bounds ==
    <<<<first_guess[1], first_guess[1]>>, <<R(0), Inf>>, <<R(0), Inf>>>>

\* culture.fit_model: what the optimizer returns for one culture.  The
\* parameters other than the growth rate (the last one) keep the guessed
\* value.  A converged fit returns the guessed rate or an outlier of four
\* times it; a fit that did not converge returns the guessed rate.
FitResults(guess, b_guess) ==
    {[x |-> [guess EXCEPT ![Len(guess)] = r[1]], success |-> r[2]] :
        r \in {<<b_guess, TRUE>>, <<RMul(R(4), b_guess), TRUE>>, <<b_guess, FALSE>>}}

\* Mutant: a fit that did not converge ends the stage in an error.
LogFitStep_mut_halts ==
    /\ pc = "log_fit"
    /\ i <= no_cultures
    /\ \E res \in FitResults(log_eq_guesses[i], call.b_guess) :
          /\ log_est' = [log_est EXCEPT ![i] = <<res>>]
          /\ IF res.success
             THEN UNCHANGED <<pc, ret>>
             ELSE /\ pc' = "error"
                  /\ ret' = [fn |-> call.entry, raised |-> TRUE,
                             val |-> <<"RuntimeError">>]
    /\ fitted' = [fitted EXCEPT ![i] = Append(@,
                    [stage |-> "log_eq", guess |-> log_eq_guesses[i],
                     bounds |-> log_eq_bounds])]
    /\ i' = i + 1
    /\ UNCHANGED <<plateVars, call, im_neigh_est, first_guess, neigh,
                   quick_guess, sweep, bounds>>

\* One iteration of "for guess, culture in zip(log_eq_guesses, cultures)".
LogFitStep ==
    /\ pc = "log_fit"
    /\ i <= no_cultures
    /\ \E res \in FitResults(log_eq_guesses[i], call.b_guess) :
          log_est' = [log_est EXCEPT ![i] = <<res>>]
    /\ fitted' = [fitted EXCEPT ![i] = Append(@,
                    [stage |-> "log_eq", guess |-> log_eq_guesses[i],
                     bounds |-> log_eq_bounds])]
    /\ i' = i + 1
    /\ UNCHANGED <<plateVars, call, pc, im_neigh_est, first_guess, neigh,
                   quick_guess, sweep, bounds, ret>>

\* The end of quick_fit_log_eq: _process_quick_ests and return.
LogProcess ==
    /\ pc = "log_fit"
    /\ i > no_cultures
    /\ UNCHANGED <<plateVars, call>>
    /\ IF ProcessRaises(log_est, "first_guess", None) THEN Raise("TypeError")
       ELSE /\ quick_guess' = process_quick_ests(log_est, IndeModel, call.b_guess,
                                                 FALSE, "first_guess", None)
            /\ pc' = "guess_kn"
            /\ UNCHANGED <<i, log_est, im_neigh_est, first_guess, neigh, fitted,
                           sweep, bounds, ret>>

\* quick_fit_imag_neighs raises ValueError for a plate_lvl that is given
\* and empty.
PlateLvlEmpty == call.plate_lvl # None /\ call.plate_lvl[1] = <<>>

\* first_guess of quick_fit_imag_neighs.
imag_first_guess ==
    LET b_guess == call.imag_neigh_params[Len(call.imag_neigh_params)]
    IN  IF call.plate_lvl = None THEN make_first_guess(b_guess)
        ELSE IF N_bc THEN UpTo(call.plate_lvl[1], N_index + 2) \o <<b_guess>>
        ELSE UpTo(call.plate_lvl[1], N_index + 1) \o <<b_guess>>

\* N_0_min of quick_fit_imag_neighs when no_neighs is None.
N_0_min ==
    IF call.plate_lvl = None THEN RMinSeq(guess_init_N)
    ELSE call.plate_lvl[1][N_index + 1]

C_f_max == RMaxSeq(C_fs)

\* int(np.ceil(float(C_f_max)/N_0_min)) raises when the quotient is not
\* finite (N_0_min is zero).
NoNeighsRaises ==
    call.no_neighs = None /\ ~IsFinite(RDiv(C_f_max, N_0_min))

computed_no_neighs ==
    IF call.no_neighs = None THEN Ceil(RDiv(C_f_max, N_0_min))
    ELSE call.no_neighs[1]

\* neigh_bounds before _sep_by_N_0.
imag_neigh_bounds(guess) ==
    LET p == call.imag_neigh_params
        amount_bounds == [k \in 1..(Len(guess) - 1) |-> <<guess[k], guess[k]>>]
        other_bounds == <<<<R(0), Inf>>, <<R(0), Inf>>, <<p[3], p[3]>>,
                          <<p[4], p[4]>>, <<R(0), Inf>>>>
    IN  amount_bounds \o other_bounds

\* Mutant: a plate_lvl that is given and empty is taken as a request to
\* infer.
StartImagNeigh_mut_empty_infers ==
    /\ pc = "start"
    /\ call.entry = "fit_imag_neigh"
    /\ UNCHANGED <<plateVars, call>>
    /\ LET infer == call.plate_lvl = None \/ PlateLvlEmpty
           quot == IF PlateLvlEmpty
                   THEN RDiv(C_f_max, RMinSeq(guess_init_N))
                   ELSE RDiv(C_f_max, N_0_min)
       IN  IF infer /\ MakeFirstGuessRaises THEN Raise("TypeError")
           ELSE IF call.no_neighs = None /\ ~IsFinite(quot)
           THEN Raise("OverflowError")
           ELSE LET guess == IF PlateLvlEmpty
                             THEN make_first_guess(call.b_guess)
                             ELSE imag_first_guess
                    params == UpTo(guess, Len(guess) - 1)
                                  \o call.imag_neigh_params
                    sep == sep_by_N_0(params, imag_neigh_bounds(guess))
                IN  /\ first_guess' = guess
                    /\ neigh' = [no_neighs |-> IF call.no_neighs = None
                                               THEN Ceil(quot)
                                               ELSE call.no_neighs[1],
                                 params |-> sep[1], bounds |-> sep[2],
                                 N_0_index |-> -1]
                    /\ pc' = "imag_fit"
                    /\ i' = 1
                    /\ UNCHANGED <<log_est, im_neigh_est, fitted, quick_guess,
                                   sweep, bounds, ret>>

\* quick_fit_imag_neighs up to the fit loop.
StartImagNeigh ==
    /\ pc = "start"
    /\ call.entry = "fit_imag_neigh"
    /\ UNCHANGED <<plateVars, call>>
    /\ IF PlateLvlEmpty THEN Raise("ValueError")
       ELSE IF call.plate_lvl = None /\ MakeFirstGuessRaises THEN Raise("TypeError")
       ELSE IF NoNeighsRaises THEN Raise("OverflowError")
       ELSE LET guess == imag_first_guess
                params == UpTo(guess, Len(guess) - 1) \o call.imag_neigh_params
                sep == sep_by_N_0(params, imag_neigh_bounds(guess))
            IN  /\ first_guess' = guess
                /\ neigh' = [no_neighs |-> computed_no_neighs, params |-> sep[1],
                             bounds |-> sep[2], N_0_index |-> -1]
                /\ pc' = "imag_fit"
                /\ i' = 1
                /\ UNCHANGED <<log_est, im_neigh_est, fitted, quick_guess,
                               sweep, bounds, ret>>

\* Mutant: internals take the edge group and edges the internal group.
next_N_0_index_mut_swapped(c) ==
    IF ~N_bc THEN 0
    ELSE IF c \in internals THEN 1
    ELSE IF c \in edges THEN 0
    ELSE neigh.N_0_index

\* N_0_index after the if/elif chain of one iteration; it keeps the value
\* of the previous iteration when no branch is taken.
next_N_0_index(c) ==
    IF ~N_bc THEN 0
    ELSE IF c \in internals THEN 0
    ELSE IF c \in edges THEN 1
    ELSE neigh.N_0_index

\* Mutant: a culture starts from the fast neighbours' rate b+ instead of
\* the guess b.
ImagFitStep_mut_rate ==
    /\ pc = "imag_fit"
    /\ i <= no_cultures
    /\ LET k == next_N_0_index(i)
           g == IF i \in empties THEN <<>>
                ELSE [neigh.params[k + 1] EXCEPT ![7] = neigh.params[k + 1][6]]
       IN  /\ neigh' = [neigh EXCEPT !.N_0_index = k]
           /\ IF i \in empties
              THEN UNCHANGED <<im_neigh_est, fitted>>
              ELSE /\ \E res \in FitResults(g, call.b_guess) :
                         im_neigh_est' = [im_neigh_est EXCEPT ![i] = <<res>>]
                   /\ fitted' = [fitted EXCEPT ![i] = Append(@,
                                   [stage |-> "imag_neigh",
                                    guess |-> g,
                                    bounds |-> neigh.bounds[k + 1]])]
    /\ i' = i + 1
    /\ UNCHANGED <<plateVars, call, pc, log_est, first_guess, quick_guess,
                   sweep, bounds, ret>>

\* One iteration of "for i, c in enumerate(self.plate.cultures)".
ImagFitStep ==
    /\ pc = "imag_fit"
    /\ i <= no_cultures
    /\ LET k == next_N_0_index(i)
       IN  /\ neigh' = [neigh EXCEPT !.N_0_index = k]
           /\ IF i \in empties
              THEN UNCHANGED <<im_neigh_est, fitted>>
              ELSE /\ \E res \in FitResults(neigh.params[k + 1], call.b_guess) :
                         im_neigh_est' = [im_neigh_est EXCEPT ![i] = <<res>>]
                   /\ fitted' = [fitted EXCEPT ![i] = Append(@,
                                   [stage |-> "imag_neigh",
                                    guess |-> neigh.params[k + 1],
                                    bounds |-> neigh.bounds[k + 1]])]
    /\ i' = i + 1
    /\ UNCHANGED <<plateVars, call, pc, log_est, first_guess, quick_guess,
                   sweep, bounds, ret>>

\* Mutant: fit_imag_neigh runs guess_kn whether or not plate_lvl is given.
ImagProcess_mut_always_kn ==
    /\ pc = "imag_fit"
    /\ i > no_cultures
    /\ UNCHANGED <<plateVars, call>>
    /\ IF ProcessRaises(im_neigh_est, "first_guess", call.plate_lvl)
       THEN Raise("TypeError")
       ELSE /\ quick_guess' =
                 process_quick_ests(im_neigh_est, ImagNeighModel, call.b_guess,
                                    TRUE, "first_guess", call.plate_lvl)
            /\ pc' = "guess_kn"
            /\ UNCHANGED <<i, log_est, im_neigh_est, first_guess, neigh, fitted,
                           sweep, bounds, ret>>

\* The end of quick_fit_imag_neighs, and fit_imag_neigh's test of plate_lvl.
ImagProcess ==
    /\ pc = "imag_fit"
    /\ i > no_cultures
    /\ UNCHANGED <<plateVars, call>>
    /\ IF ProcessRaises(im_neigh_est, "first_guess", call.plate_lvl)
       THEN Raise("TypeError")
       ELSE /\ quick_guess' =
                 process_quick_ests(im_neigh_est, ImagNeighModel, call.b_guess,
                                    TRUE, "first_guess", call.plate_lvl)
            /\ pc' = IF call.plate_lvl = None THEN "guess_kn" ELSE "done"
            /\ UNCHANGED <<i, log_est, im_neigh_est, first_guess, neigh, fitted,
                           sweep, bounds, ret>>

\* guess_kn: the simulator's variance for each swept kn is an input, the
\* lowest or the highest of the variances drawn.
GuessKn ==
    /\ pc = "guess_kn"
    /\ \E C_f_vars \in [1..call.kn[3] -> {R(0), R(MaxVar)}] :
          /\ quick_guess' = guess_kn(call.kn[1], call.kn[2], call.kn[3],
                                     quick_guess, C_f_vars)
          /\ sweep' = [kns |-> linspace(call.kn[1], call.kn[2], call.kn[3]),
                       C_f_vars |-> C_f_vars]
    /\ pc' = "done"
    /\ UNCHANGED <<plateVars, call, i, log_est, im_neigh_est, first_guess,
                   neigh, fitted, bounds, ret>>

Next ==
    \/ StartLogEq
    \/ LogFitStep
    \/ LogProcess
    \/ StartImagNeigh
    \/ ImagFitStep
    \/ ImagProcess
    \/ GuessKn

Spec == Init /\ [][Next]_vars

\* ------------------------------------------- functions applied on their own
\* A Guesser on a drawn plate, no run in progress.
InitFun ==
    /\ role \in Plates
    /\ c_meas \in Measurements(MaxMeas)
    /\ model \in {CompModel, CompModelBC}
    /\ area_ratio \in {<<R(2)>>, <<<<1, 2>>>>}
    /\ C_ratio = <<<<1, 2>>>>
    /\ call \in Calls(model, {<<R(0), R(2), 2>>})
    /\ call.entry = "fit_log_eq"
    /\ pc = "fun"
    /\ InitRun

Return(fn, raised, val) ==
    /\ pc' = "returned"
    /\ ret' = [fn |-> fn, raised |-> raised, val |-> val]

FunGuessInitN ==
    /\ pc = "fun"
    /\ Return("_guess_init_N", FALSE, guess_init_N)
    /\ UNCHANGED <<plateVars, call, i, log_est, im_neigh_est, first_guess,
                   neigh, fitted, quick_guess, sweep, bounds>>

\* Estimates [C_0, N_0, b] of the growers as a fit stage leaves them; the
\* C_0 estimate of culture c is c, so that a row names its culture.
EstRow(c) == <<R(c), C_fs[c], call.b_guess>>

FunTopHalf ==
    /\ pc = "fun"
    /\ LET all_ests == [k \in 1..Len(growersSeq) |-> EstRow(growersSeq[k])]
       IN  IF TopHalfRaises(all_ests)
           THEN Return("_get_top_half_C_f_ests", TRUE, <<"ValueError">>)
           ELSE Return("_get_top_half_C_f_ests", FALSE,
                       get_top_half_C_f_ests(all_ests))
    /\ UNCHANGED <<plateVars, call, i, log_est, im_neigh_est, first_guess,
                   neigh, fitted, quick_guess, sweep, bounds>>

\* The vector the aggregator returns when every grower's fit returned
\* the growth rate b.
AggregatedGuess(b) ==
    LET est == [c \in Cultures |->
                  <<[x |-> <<guess_init_C[1], C_fs[c], b>>, success |-> TRUE]>>]
    IN  process_quick_ests(est, IndeModel, call.b_guess, FALSE, "first_guess", None)

\* get_bounds(params, C_doubt, N_doubt, kn_max) on an aggregated guess whose
\* kn is filled or still the placeholder; ret.val is the kn_max passed.
FunGetBounds ==
    /\ pc = "fun"
    /\ \E kn \in {R(0), R(2), NaN}, kn_max \in {R(1), R(10)} :
          LET params == [AggregatedGuess(call.b_guess) EXCEPT ![kn_index + 1] = kn]
          IN  /\ quick_guess' = params
              /\ bounds' = get_bounds(params, R(1000), R(2), kn_max)
              /\ Return("get_bounds", FALSE, <<kn_max>>)
    /\ UNCHANGED <<plateVars, call, i, log_est, im_neigh_est, first_guess,
                   neigh, fitted, sweep>>

\* (kn_start, kn_stop, kn_num) drawn for guess_kn.
KnSweeps == {<<R(0), R(2), 3>>, <<R(0), R(1), 2>>, <<R(1), R(1), 2>>, <<R(0), R(2), 1>>}

\* guess_kn(start, stop, num, params) on an aggregated guess; the
\* simulator's variance for each swept kn is an input.  ret.val is params.
FunGuessKn ==
    /\ pc = "fun"
    /\ LET params == AggregatedGuess(call.b_guess)
       IN  \E k \in KnSweeps :
             \E C_f_vars \in [1..k[3] -> {R(v) : v \in 0..MaxVar}] :
                /\ quick_guess' = guess_kn(k[1], k[2], k[3], params, C_f_vars)
                /\ sweep' = [kns |-> linspace(k[1], k[2], k[3]),
                             C_f_vars |-> C_f_vars]
                /\ Return("guess_kn", FALSE, params)
    /\ UNCHANGED <<plateVars, call, i, log_est, im_neigh_est, first_guess,
                   neigh, fitted, bounds>>

NextFun ==
    \/ FunGuessInitN
    \/ FunTopHalf
    \/ FunGetBounds

SpecFun == InitFun /\ [][NextFun]_vars

\* guess_kn applied on its own, on the plates of a pipeline run.
InitKn ==
    /\ role \in Plates
    /\ c_meas \in Measurements(MaxMeasRun)
    /\ \A c \in empties : C_fs[c] = R(0)
    /\ model \in {CompModel, CompModelBC}
    /\ area_ratio = <<R(2)>>
    /\ C_ratio = <<<<1, 2>>>>
    /\ call \in Calls(model, {<<R(0), R(2), 2>>})
    /\ call.entry = "fit_log_eq"
    /\ pc = "fun"
    /\ InitRun

NextKn == FunGuessKn

SpecKn == InitKn /\ [][NextKn]_vars

\* ---------------------------------------------------------------- properties
\* N_tot of _guess_init_N: the sum of the final measurements over the growers.
GrowerFinalSum == RSum([k \in 1..Len(growersSeq) |-> C_fs[growersSeq[k]]])

ReturnedFrom(fn) == pc = "returned" /\ ret.fn = fn

\* C1: without a nutrient boundary condition _guess_init_N returns one
\* value N_all, and N_all x total culture count equals the sum of the final
\* measurements over the growing cultures, whatever the plate.
C1_UniformNutrientConserves ==
    (ReturnedFrom("_guess_init_N") /\ ~N_bc) =>
        /\ Len(ret.val) = 1
        /\ REq(RMul(ret.val[1], R(no_cultures)), GrowerFinalSum)

\* C1 witness: a uniform guess returned for a plate with an empty position
\* and a grower that measured cells.
C1_Witness ==
    /\ ReturnedFrom("_guess_init_N")
    /\ ~N_bc
    /\ empties # {}
    /\ RLt(R(0), GrowerFinalSum)
    /\ RLt(R(0), ret.val[1])

\* C2: with a nutrient boundary condition, internals and edges both
\* present and a positive area_ratio, the pair [Ni, Ne] satisfies
\* n_internal x Ni + n_edge x Ne = N_tot and Ne = Ni x area_ratio.
C2_BoundaryNutrientConserves ==
    (/\ ReturnedFrom("_guess_init_N")
     /\ N_bc
     /\ internals # {}
     /\ edges # {}) =>
        /\ Len(ret.val) = 2
        /\ REq(RAdd(RMul(R(Cardinality(internals)), ret.val[1]),
                    RMul(R(Cardinality(edges)), ret.val[2])),
               GrowerFinalSum)
        /\ REq(ret.val[2], RMul(ret.val[1], area_ratio[1]))

\* C2 witness: a pair returned for a plate with an internal, an edge and
\* an empty position, cells measured, and edge area half the internal area.
C2_Witness ==
    /\ ReturnedFrom("_guess_init_N")
    /\ N_bc
    /\ internals # {}
    /\ edges # {}
    /\ empties # {}
    /\ area_ratio = <<<<1, 2>>>>
    /\ RLt(R(0), GrowerFinalSum)
    /\ RLt(ret.val[2], ret.val[1])

Within(bnd, x) == RLe(bnd[1], x) /\ RLe(x, bnd[2])

\* C3 as stated: the bounds of get_bounds are aligned one-to-one with the
\* guess vector and lower <= guess <= upper holds at every position, the
\* diffusion rate included.
C3_EveryPositionWithinBounds ==
    ReturnedFrom("get_bounds") =>
        /\ Len(bounds) = Len(quick_guess)
        /\ \A k \in 1..Len(quick_guess) : Within(bounds[k], quick_guess[k])

\* C3 amended: the bounds are aligned one-to-one with the guess vector and
\* lower <= guess <= upper holds at the cell, nutrient and growth-rate
\* positions; the diffusion-rate bound is (0, kn_max) whatever the guess.
C3_AmountsAndRatesWithinBounds ==
    ReturnedFrom("get_bounds") =>
        /\ Len(bounds) = Len(quick_guess)
        /\ \A k \in 1..Len(quick_guess) :
              IF k = kn_index + 1
              THEN bounds[k] = <<R(0), ret.val[1]>>
              ELSE Within(bounds[k], quick_guess[k])

\* C3 witness: bounds built for a guess with cells and nutrient and a
\* diffusion rate above kn_max.
C3_Witness ==
    /\ ReturnedFrom("get_bounds")
    /\ RLt(R(0), quick_guess[1])
    /\ RLt(R(0), quick_guess[2])
    /\ RLt(ret.val[1], quick_guess[kn_index + 1])
    /\ ~Within(bounds[kn_index + 1], quick_guess[kn_index + 1])

\* The growth-rate entry of culture c in an aggregated vector v.
BEntry(v, c) == v[Len(v) - no_cultures + c]

Aggregated == pc \in {"guess_kn", "done"}

\* C4: in the vector _process_quick_ests returns, with or without
\* plate_lvl, the growth rate at every empty position is exactly zero and,
\* with clip on (the imaginary-neighbour stage), no growth rate exceeds
\* 3 x b_guess; both still hold once guess_kn has been applied.
C4_EmptiesZeroAndClip ==
    Aggregated =>
        \A c \in Cultures :
            /\ c \in empties => BEntry(quick_guess, c) = R(0)
            /\ call.entry = "fit_imag_neigh" =>
                  RLe(BEntry(quick_guess, c), RMul(R(3), call.b_guess))

\* C4 witness: guess_kn has run on the vector of an imaginary-neighbour
\* stage of a plate with an empty position, and a fit that returned more
\* than 3 x b_guess is held at 3 x b_guess.
C4_Witness ==
    /\ pc = "done"
    /\ sweep # NoSweep
    /\ call.entry = "fit_imag_neigh"
    /\ empties # {}
    /\ \E c \in growers :
          /\ RLt(RMul(R(3), call.b_guess), im_neigh_est[c][1].x[7])
          /\ BEntry(quick_guess, c) = RMul(R(3), call.b_guess)

\* Candidate laws variance = m x rate + c, m nonzero, in halves.
Laws ==
    {<<RNorm(a, 2), RNorm(b, 2)>> :
        a \in (-2 * MaxVar..2 * MaxVar) \ {0}, b \in -2 * MaxVar..4 * MaxVar}

\* The simulated variances of the sweep follow the law.
FollowsLaw(law) ==
    \A k \in 1..Len(sweep.kns) :
        sweep.C_f_vars[k] = RAdd(RMul(law[1], sweep.kns[k]), law[2])

\* (target - c)/m, the target being the variance of the real finals.
LawRate(law) == RDiv(RSub(Var(C_fs), law[2]), law[1])

TwoDistinctRates == \E j, k \in 1..Len(sweep.kns) : sweep.kns[j] # sweep.kns[k]

\* C5 as stated: when the simulated variances follow a linear law with
\* m nonzero, guess_kn writes (target - c)/m at the diffusion-rate index,
\* and 0 when that value is negative.
C5_RecoversRateOfLaw ==
    ReturnedFrom("guess_kn") =>
        \A law \in Laws :
            FollowsLaw(law) =>
                REq(quick_guess[kn_index + 1], ClipMin(LawRate(law), R(0)))

\* C5 amended: the same, for a sweep of at least two distinct rates.
C5_RecoversRateOfLawOverDistinctRates ==
    (ReturnedFrom("guess_kn") /\ TwoDistinctRates) =>
        \A law \in Laws :
            FollowsLaw(law) =>
                REq(quick_guess[kn_index + 1], ClipMin(LawRate(law), R(0)))

\* C5 witness: a sweep of distinct rates follows a law whose inverse at the
\* target is negative, and guess_kn has written 0.
C5_Witness ==
    /\ ReturnedFrom("guess_kn")
    /\ TwoDistinctRates
    /\ \E law \in Laws : FollowsLaw(law) /\ RLt(LawRate(law), R(0))
    /\ quick_guess[kn_index + 1] = R(0)

\* C6: with plate_lvl None the vector of _process_quick_ests has length
\* (number of non-growth-rate parameters) + total culture count, holds the
\* nan placeholder at the index of 'kn' and nowhere else, the cell and
\* nutrient amounts before it and one growth rate per culture after it, and
\* the placeholder stays until guess_kn runs.
C6_PlaceholderAtKn ==
    pc = "guess_kn" =>
        /\ call.plate_lvl = None
        /\ sweep = NoSweep
        /\ Len(quick_guess) = (Len(model.params) - 1) + no_cultures
        /\ \A k \in 1..Len(quick_guess) :
              IsNaN(quick_guess[k]) <=> k = kn_index + 1
        /\ UpTo(quick_guess, kn_index) = UpTo(first_guess, Len(first_guess) - 1)
        /\ kn_index = IF N_bc THEN 3 ELSE 2
        /\ Len(From(quick_guess, kn_index + 1)) = no_cultures

\* C6 witness: the logistic-equivalent stage has returned its vector for a
\* boundary-condition model on a plate with an empty position.
C6_Witness ==
    /\ pc = "guess_kn"
    /\ call.entry = "fit_log_eq"
    /\ N_bc
    /\ empties # {}
    /\ IsNaN(quick_guess[4])

\* A plate_lvl supplied but empty, or a ratio the inference path needs
\* missing.
ConfigError ==
    \/ PlateLvlEmpty
    \/ /\ call.plate_lvl = None
       /\ \/ C_ratio = None
          \/ N_bc /\ area_ratio = None

NoFitResult ==
    /\ log_est = NoEst
    /\ im_neigh_est = NoEst
    /\ \A c \in Cultures : fitted[c] = <<>>

\* C7: a run with a configuration error ends in an error outcome with no
\* culture having received a fit result; an empty plate_lvl is never
\* treated as a request to infer.
C7_ConfigErrorBeforeAnyFit ==
    ConfigError =>
        /\ pc \in {"start", "error"}
        /\ NoFitResult
        /\ pc = "error" => ret.raised /\ first_guess = <<>> /\ quick_guess = <<>>

\* C7 witness: a run given an empty plate_lvl, with both ratios present,
\* has ended in an error.
C7_Witness ==
    /\ PlateLvlEmpty
    /\ C_ratio # None
    /\ area_ratio # None
    /\ pc = "error"
    /\ ret.raised
    /\ NoFitResult

PlateLvlGiven == call.plate_lvl # None /\ ~PlateLvlEmpty

\* The growth-rate vector of the imaginary-neighbour stage: each grower's
\* estimate held at 3 x b_guess, zero at the empties.
ClippedBs ==
    [c \in Cultures |->
       IF c \in empties THEN R(0)
       ELSE LET b == im_neigh_est[c][1].x[7]
                top == RMul(R(3), call.b_guess)
            IN  IF RLt(top, b) THEN top ELSE b]

\* C8: with a non-empty plate_lvl the imaginary-neighbour path returns
\* plate_lvl followed by the clipped, zero-at-empties growth rates: no
\* amount is guessed, the ratios are not read, no nan is inserted and
\* guess_kn does not run.
C8_PlateLvlPassedThrough ==
    PlateLvlGiven =>
        /\ pc \notin {"error", "guess_kn"}
        /\ sweep = NoSweep
        /\ pc # "start" =>
              UpTo(first_guess, Len(first_guess) - 1)
                  = UpTo(call.plate_lvl[1], Len(call.plate_lvl[1]) - 1)
        /\ pc = "done" =>
              /\ quick_guess = call.plate_lvl[1] \o ClippedBs
              /\ \A k \in 1..Len(quick_guess) : ~IsNaN(quick_guess[k])

\* C8 witness: fit_imag_neigh has returned for a plate_lvl given with both
\* ratios None, on a plate with an empty position, one fit clipped.
C8_Witness ==
    /\ PlateLvlGiven
    /\ pc = "done"
    /\ C_ratio = None
    /\ area_ratio = None
    /\ N_bc
    /\ empties # {}
    /\ \E c \in growers : RLt(RMul(R(3), call.b_guess), im_neigh_est[c][1].x[7])

\* The initial nutrient of the regime culture c is fitted under.
RegimeN(c) ==
    IF N_bc /\ c \in edges THEN first_guess[N_index + 2]
    ELSE first_guess[N_index + 1]

\* C9: when no_neighs is computed, for every fitted culture
\* (1 + no_neighs) x the nutrient amount of its regime exceeds the largest
\* final cell amount of the plate, for internals and edges alike, amounts
\* inferred or supplied.
C9_NutrientBudgetExceedsMaxYield ==
    \A c \in Cultures :
        (call.no_neighs = None /\ im_neigh_est[c] # None) =>
            RLt(C_f_max, RMul(R(1 + neigh.no_neighs), RegimeN(c)))

\* The growers ranked by their own final measurement: c is in the top half
\* when fewer than ceil(n/2) growers measured more.
TopHalfGrowers ==
    {c \in growers :
        Cardinality({d \in growers : RLt(C_fs[c], C_fs[d])})
            < (Cardinality(growers) + 1) \div 2}

\* C10: the estimates _get_top_half_C_f_ests selects are exactly those of
\* the ceil(n/2) fitted cultures with the highest final measurement, each
\* ranked by the final of its own culture, with or without empty positions.
C10_TopHalfByOwnYield ==
    (/\ ReturnedFrom("_get_top_half_C_f_ests")
     /\ ~ret.raised
     /\ \A c, d \in growers : c # d => C_fs[c] # C_fs[d]) =>
        {ret.val[k] : k \in 1..Len(ret.val)} = {EstRow(c) : c \in TopHalfGrowers}

\* quick_fit_log_eq has returned.
LogStageDone == call.entry = "fit_log_eq" /\ pc \in {"guess_kn", "done"}

\* The one logistic-equivalent fit of culture c started from the culture's
\* own final measurement, with the C_0 bound collapsed to the guess.
LogFitOfOwnFinal(c) ==
    /\ Len(fitted[c]) = 1
    /\ fitted[c][1].stage = "log_eq"
    /\ fitted[c][1].guess = <<first_guess[1], C_fs[c], call.b_guess>>
    /\ fitted[c][1].bounds[1] = <<first_guess[1], first_guess[1]>>

\* C11 as stated: after quick_fit_log_eq a culture holds a log_est result
\* if and only if it is growing, and each fitted culture started from its
\* own final measurement with the C_0 bound collapsed to the guessed value.
C11_LogStageFitsGrowersOnly ==
    LogStageDone =>
        \A c \in Cultures :
            /\ log_est[c] # None <=> c \in growers
            /\ log_est[c] # None => LogFitOfOwnFinal(c)

\* C11 amended: after quick_fit_log_eq every culture of the plate, the
\* empty positions included, holds a log_est result, each fitted once from
\* its own final measurement with the C_0 bound collapsed to the guessed
\* value.
C11_LogStageFitsEveryCulture ==
    LogStageDone =>
        \A c \in Cultures : log_est[c] # None /\ LogFitOfOwnFinal(c)

\* C11 witness: the stage has returned for a plate with an empty position
\* that holds a result, and two growers that started from different
\* finals.
C11_Witness ==
    /\ LogStageDone
    /\ \E c \in empties : log_est[c] # None
    /\ \E c, d \in growers : fitted[c][1].guess[2] # fitted[d][1].guess[2]

\* The guess of culture c's own nutrient regime: the cell amount, the
\* nutrient of the regime, then ['kn1', 'kn2', 'b-', 'b+', 'b'].
RegimeGuess(c) == <<first_guess[1], RegimeN(c)>> \o call.imag_neigh_params

\* The bounds of that regime: amounts fixed, kn1, kn2 and b free above
\* zero, b- and b+ fixed.
RegimeBounds(c) ==
    LET p == call.imag_neigh_params
    IN  <<<<first_guess[1], first_guess[1]>>, <<RegimeN(c), RegimeN(c)>>,
          <<R(0), Inf>>, <<R(0), Inf>>, <<p[3], p[3]>>, <<p[4], p[4]>>,
          <<R(0), Inf>>>>

\* The cultures the loop of quick_fit_imag_neighs has visited.
ImagVisited ==
    IF call.entry # "fit_imag_neigh" \/ pc \in {"start", "error"} THEN {}
    ELSE IF pc = "imag_fit" THEN 1..(i - 1)
    ELSE Cultures

\* C12: in the imaginary-neighbour stage an empty culture receives no
\* im_neigh_est, and a non-empty culture is fitted exactly once with the
\* guess and bounds of its own nutrient regime (one group without a
\* boundary condition, the internal or the edge group with one), never
\* with an index left over from a culture visited before.
C12_ImagFitUsesOwnRegime ==
    call.entry = "fit_imag_neigh" =>
        \A c \in Cultures :
            IF c \in ImagVisited /\ c \in growers
            THEN /\ im_neigh_est[c] # None
                 /\ Len(fitted[c]) = 1
                 /\ fitted[c][1].stage = "imag_neigh"
                 /\ fitted[c][1].guess = RegimeGuess(c)
                 /\ fitted[c][1].bounds = RegimeBounds(c)
            ELSE im_neigh_est[c] = None /\ fitted[c] = <<>>

\* C12 witness: the stage is over for a boundary-condition model on a
\* plate where an empty position comes between an edge and an internal
\* culture, both fitted, with different nutrient amounts.
C12_Witness ==
    /\ call.entry = "fit_imag_neigh"
    /\ pc = "done"
    /\ N_bc
    /\ \E c, d, e \in Cultures :
          /\ c < d /\ d < e
          /\ c \in edges /\ d \in empties /\ e \in internals
          /\ fitted[c][1].guess # fitted[e][1].guess
          /\ im_neigh_est[d] = None

\* quick_fit_imag_neighs has called _sep_by_N_0.
SepDone == call.entry = "fit_imag_neigh" /\ pc \notin {"start", "error"}

\* The guess handed to _sep_by_N_0: the amounts of first_guess, then
\* ['kn1', 'kn2', 'b-', 'b+', 'b'].
SepGuessIn ==
    [k \in 1..(Len(first_guess) - 1) |-> first_guess[k]] \o call.imag_neigh_params

\* The bounds handed to _sep_by_N_0, slot by slot.
SepBoundsIn ==
    LET p == call.imag_neigh_params
    IN  [k \in 1..(Len(first_guess) - 1) |-> <<first_guess[k], first_guess[k]>>]
            \o <<<<R(0), Inf>>, <<R(0), Inf>>, <<p[3], p[3]>>, <<p[4], p[4]>>,
                 <<R(0), Inf>>>>

\* s with the slot of 0-based index k removed.
WithoutSlot(s, k) ==
    [j \in 1..(Len(s) - 1) |-> IF j <= k THEN s[j] ELSE s[j + 1]]

\* C13: _sep_by_N_0 returns one (guess, bounds) group without a boundary
\* condition and two with one; of the two, the first is the input without
\* the edge-nutrient slot (index 2) and the second the input without the
\* internal-nutrient slot (index 1), guess and bounds losing the same slot.
C13_SepByRegime ==
    SepDone =>
        IF N_bc
        THEN /\ neigh.params = <<WithoutSlot(SepGuessIn, 2), WithoutSlot(SepGuessIn, 1)>>
             /\ neigh.bounds = <<WithoutSlot(SepBoundsIn, 2), WithoutSlot(SepBoundsIn, 1)>>
        ELSE /\ neigh.params = <<SepGuessIn>>
             /\ neigh.bounds = <<SepBoundsIn>>

\* C13 witness: two groups were returned for inferred amounts whose
\* internal and edge nutrient differ, and the groups differ in that slot.
C13_Witness ==
    /\ SepDone
    /\ N_bc
    /\ call.plate_lvl = None
    /\ Len(neigh.params) = 2
    /\ first_guess[2] # first_guess[3]
    /\ neigh.params[1][2] = first_guess[2]
    /\ neigh.params[2][2] = first_guess[3]
    /\ neigh.bounds[2][2] = <<first_guess[3], first_guess[3]>>

\* Some culture has been fitted in the imaginary-neighbour stage.
ImagStageFitted == \E c \in Cultures : im_neigh_est[c] # None

\* The growth rate the imaginary-neighbour fit of culture c started from.
ImagStartRate(c) == fitted[c][Len(fitted[c])].guess[7]

\* C14 as stated: in a run that includes the imaginary-neighbour stage the
\* logistic-equivalent stage has completed for all growing cultures before
\* any imaginary-neighbour fit, and each culture starts that fit from its
\* own logistic-equivalent growth-rate estimate.
C14_LogStageSeedsImagStage ==
    ImagStageFitted =>
        \A c \in growers :
            /\ log_est[c] # None
            /\ im_neigh_est[c] # None => ImagStartRate(c) = log_est[c][1].x[3]

\* C14 amended: the two stages are alternatives.  A run of fit_imag_neigh
\* holds no logistic-equivalent result and starts every culture from the
\* caller's one growth-rate guess, the last of imag_neigh_params; a run of
\* fit_log_eq holds no imaginary-neighbour result.  Within a run the fits
\* are over before the aggregation, and guess_kn runs last.
C14_StagesAreAlternatives ==
    /\ call.entry = "fit_imag_neigh" =>
          /\ log_est = NoEst
          /\ \A c \in Cultures :
                im_neigh_est[c] # None =>
                    /\ \A k \in 1..Len(fitted[c]) : fitted[c][k].stage = "imag_neigh"
                    /\ ImagStartRate(c) = call.imag_neigh_params[5]
    /\ call.entry = "fit_log_eq" =>
          /\ im_neigh_est = NoEst
          /\ \A c \in Cultures :
                \A k \in 1..Len(fitted[c]) : fitted[c][k].stage = "log_eq"
    /\ pc \in {"start", "log_fit", "imag_fit"} => quick_guess = <<>>
    /\ sweep # NoSweep => pc = "done"

\* C14 witness: fit_imag_neigh has run to the end, guess_kn included, two
\* cultures were fitted from the same rate and returned different rates,
\* and no culture holds a logistic-equivalent result.
C14_Witness ==
    /\ call.entry = "fit_imag_neigh"
    /\ pc = "done"
    /\ sweep # NoSweep
    /\ log_est = NoEst
    /\ \E c, d \in growers :
          /\ c # d
          /\ ImagStartRate(c) = ImagStartRate(d)
          /\ im_neigh_est[c][1].x[7] # im_neigh_est[d][1].x[7]

\* The results of the stage of this run, and the cultures its loop fits.
StageEst == IF call.entry = "fit_log_eq" THEN log_est ELSE im_neigh_est

DueToBeFitted == IF call.entry = "fit_log_eq" THEN Cultures ELSE growers

StageDone == pc \in {"guess_kn", "done"}

\* Culture c holds the result of its own fit, convergence status included.
HoldsOwnResult(c) ==
    /\ StageEst[c] # None
    /\ Len(fitted[c]) = 1
    /\ StageEst[c][1] \in FitResults(fitted[c][1].guess, call.b_guess)
    /\ StageEst[c][1].success \in BOOLEAN

\* C15: in both fit stages a fit reported as not converged does not stop
\* the batch: the stage never ends in an error once a culture is fitted,
\* the loop goes on past a culture that did not converge, and at the end
\* every culture due to be fitted holds its own result with its
\* convergence status.
C15_NonConvergenceDoesNotHalt ==
    /\ pc = "error" => NoFitResult
    /\ pc \in {"log_fit", "imag_fit"} =>
          \A c \in DueToBeFitted : c < i => HoldsOwnResult(c)
    /\ StageDone => \A c \in DueToBeFitted : HoldsOwnResult(c)

\* C15 witness: a stage is over in which a culture that did not converge
\* was followed by one that did, and that one by another that did not.
C15_Witness ==
    /\ StageDone
    /\ \E c, d, e \in DueToBeFitted :
          /\ c < d /\ d < e
          /\ ~StageEst[c][1].success
          /\ StageEst[d][1].success
          /\ ~StageEst[e][1].success

\* C16: guess_kn changes only the diffusion-rate entry: every other entry
\* of the vector it returns equals the entry of the aggregated vector it
\* was given, and the plate's measurements and roles are as they were
\* before the sweep.
C16_GuessKnChangesOnlyKn ==
    [][(pc' = "returned" /\ ret'.fn = "guess_kn") =>
          /\ c_meas' = c_meas
          /\ role' = role
          /\ Len(quick_guess') = Len(ret'.val)
          /\ \A k \in 1..Len(ret'.val) :
                k # kn_index + 1 => quick_guess'[k] = ret'.val[k]]_vars

\* C16 witness: guess_kn has returned for a plate with an empty position
\* and cells measured; the placeholder became a positive rate and the
\* amounts and growth rates are those given.
C16_Witness ==
    /\ ReturnedFrom("guess_kn")
    /\ empties # {}
    /\ RLt(R(0), ret.val[1])
    /\ IsNaN(ret.val[kn_index + 1])
    /\ RLt(R(0), quick_guess[kn_index + 1])
    /\ IsFinite(quick_guess[kn_index + 1])
    /\ \A k \in 1..Len(ret.val) : k # kn_index + 1 => quick_guess[k] = ret.val[k]

====
